---- MODULE Spec2Model ----
(***************************************************************************)
(* Model of the Xilinx AXI-timer PWM driver, drivers/pwm/pwm-xlnx.c:       *)
(* xlnx_pwm_config, xlnx_pwm_enable and xlnx_pwm_disable acting on the two  *)
(* timer control registers (TCSR0, TCSR1), the two load registers (TLR0,    *)
(* TLR1) and the clock's enable count.                                      *)
(*                                                                         *)
(* C integers are modelled as little-endian byte sequences (byte 0 first)   *)
(* so that the widths of unsigned long long (8 bytes), unsigned long (4 or  *)
(* 8 bytes, depending on the build) and of the u32 registers (4 bytes) are  *)
(* kept exactly.                                                            *)
(* The pwm framework calling the three operations, the clock framework and  *)
(* the timer hardware are the environment: calls come in any order and with *)
(* any arguments, clk_prepare_enable may fail, clk_get_rate may return a    *)
(* different rate at each call.                                             *)
(*                                                                         *)
(* Spec takes each call as one step, as the pwm framework serializes them;  *)
(* SpecConc lets two threads run xlnx_pwm_config one access at a time.      *)
(***************************************************************************)
EXTENDS Integers, Sequences, FiniteSets, TLC

VARIABLES
    longBits,   \* width in bits of the build's unsigned long (32 or 64)
    regs,       \* the timer's registers: offset -> 4-byte value
    clkRef,     \* clk_prepare_enable calls that succeeded minus
                \* clk_disable_unprepare calls made by the driver
    last,       \* the last call: its name, arguments, return value and the
                \* clock and register accesses it made, in order
    prev,       \* the call before it: its name and its effect on clkRef
    program,    \* the cycle counts and control words computed by the most
                \* recent xlnx_pwm_config call
    pc,         \* for each thread inside xlnx_pwm_config: the number of the
                \* next of its eleven accesses (0: not called, 12: returned)
    prog,       \* for each thread inside xlnx_pwm_config: its local variables
    overlap     \* a thread entered xlnx_pwm_config while another was inside

vars == <<longBits, regs, clkRef, last, prev, program, pc, prog, overlap>>

(***************************************************************************)
(* Fixed-width unsigned arithmetic on little-endian byte sequences.        *)
(***************************************************************************)
RECURSIVE BytesOf(_, _)
\* The low k bytes of the integer n in two's complement: what the C
\* conversion of n to a k-byte unsigned type yields (a negative int
\* sign-extends).
BytesOf(n, k) ==
    IF k = 0 THEN <<>> ELSE <<n % 256>> \o BytesOf(n \div 256, k - 1)

U64(n) == BytesOf(n, 8)

U32(n) == BytesOf(n, 4)

IsZero(a) == \A i \in 1..Len(a) : a[i] = 0

RECURSIVE AddC(_, _, _)
\* a + b + c modulo 256^Len(a)
AddC(a, b, c) ==
    IF a = <<>> THEN <<>>
    ELSE LET s == Head(a) + Head(b) + c
         IN  <<s % 256>> \o AddC(Tail(a), Tail(b), s \div 256)

RECURSIVE MulSmall(_, _, _)
\* a * d + c modulo 256^Len(a), for a byte d
MulSmall(a, d, c) ==
    IF a = <<>> THEN <<>>
    ELSE LET t == Head(a) * d + c
         IN  <<t % 256>> \o MulSmall(Tail(a), d, t \div 256)

RECURSIVE MulU(_, _)
\* a * b modulo 256^Len(a): the C product of two unsigned values of a's width
MulU(a, b) ==
    IF b = <<>> THEN BytesOf(0, Len(a))
    ELSE LET r == MulU(a, Tail(b))
         IN  AddC(MulSmall(a, Head(b), 0), <<0>> \o SubSeq(r, 1, Len(r) - 1), 0)

\* One step of binary long division by n: shift the bit into the remainder.
DivStep(st, bit, n) ==
    LET t == 2 * st.r + bit
    IN  IF t >= n THEN [q |-> 2 * st.q + 1, r |-> t - n]
        ELSE [q |-> 2 * st.q, r |-> t]

RECURSIVE DivBits(_, _, _, _)
\* Bits k..0 of the byte d shifted into the remainder, most significant first.
\* (The tests on nx.r and rem only make TLC evaluate a step before the next.)
DivBits(st, d, k, n) ==
    IF k < 0 THEN st
    ELSE LET nx == DivStep(st, (d \div (2 ^ k)) % 2, n)
         IN  IF nx.r >= 0 THEN DivBits(nx, d, k - 1, n) ELSE nx

RECURSIVE DivModU(_, _)
\* Quotient (of a's width) and remainder of a by the integer n, 0 < n <= 2^30.
DivModU(a, n) ==
    IF a = <<>> THEN [q |-> <<>>, r |-> 0]
    ELSE LET hi  == DivModU(Tail(a), n)
             rem == hi.r
             s   == IF rem >= 0 THEN DivBits([q |-> 0, r |-> rem], Head(a), 7, n)
                    ELSE [q |-> 0, r |-> 0]
         IN  [q |-> <<s.q>> \o hi.q, r |-> s.r]

\* Conversion of an 8-byte value to an unsigned type of w bits (w a multiple
\* of 8), kept in 8 bytes.
Trunc(a, w) == SubSeq(a, 1, w \div 8) \o BytesOf(0, 8 - w \div 8)

Low32(a) == SubSeq(a, 1, 4)

\* Bitwise operations on bytes and on byte sequences of equal length.
BitAt(x, k) == (x \div (2 ^ k)) % 2

RECURSIVE ByteOr(_, _)
ByteOr(x, y) ==
    IF x = 0 THEN y
    ELSE IF y = 0 THEN x
    ELSE (IF x % 2 = 1 \/ y % 2 = 1 THEN 1 ELSE 0) + 2 * ByteOr(x \div 2, y \div 2)

RECURSIVE ByteAnd(_, _)
ByteAnd(x, y) ==
    IF x = 0 \/ y = 0 THEN 0
    ELSE (IF x % 2 = 1 /\ y % 2 = 1 THEN 1 ELSE 0) + 2 * ByteAnd(x \div 2, y \div 2)

RECURSIVE Or(_, _)
Or(a, b) ==
    IF a = <<>> THEN <<>> ELSE <<ByteOr(Head(a), Head(b))>> \o Or(Tail(a), Tail(b))

RECURSIVE And(_, _)
And(a, b) ==
    IF a = <<>> THEN <<>> ELSE <<ByteAnd(Head(a), Head(b))>> \o And(Tail(a), Tail(b))

\* Some bit of the mask m is set in a.
HasBit(a, m) == ~IsZero(And(a, m))

(***************************************************************************)
(* Registers and control bits (pwm-xlnx.c lines 19-36).                    *)
(***************************************************************************)
TCSR0 == 0

TLR0 == 4

TCSR1 == 16

TLR1 == 20

Offsets == {TCSR0, TLR0, TCSR1, TLR1}

TCSR_UDT == 2 ^ 1

TCSR_GENT == 2 ^ 2

TCSR_ARHT == 2 ^ 4

TCSR_LOAD == 2 ^ 5

TCSR_ENT == 2 ^ 7

TCSR_PWMA == 2 ^ 9

TCSR_ENALL == 2 ^ 10

NsPerSec == 1000000000

(***************************************************************************)
(* Bounds and inputs of the model.                                         *)
(***************************************************************************)
\* clkRef is kept within -MaxRef..MaxRef.
MaxRef == 1

\* Clock rates returned by clk_get_rate: 100 MHz, 4 GHz, 10 GHz.
Rates ==
    {U64(100000000), MulU(U64(1000000000), U64(4)),
     MulU(U64(1000000000), U64(10))}

\* A rate is an unsigned long.
FitsLong(a, w) == Trunc(a, w) = a

\* Values of the int arguments duty_ns and period_ns.
NsValues == {0, 5, 1000000, 1000005, 2000000000}

\* The threads that may be inside xlnx_pwm_config at the same time.
Threads == {1, 2}

\* What clk_prepare_enable returns: 0, or a negative errno when it fails.
ClkRet(fails) == IF fails THEN -5 ELSE 0

(***************************************************************************)
(* The accesses a call makes, applied in order to st = [regs, clk, log].   *)
(***************************************************************************)
\* writel(data, xlnx->base + offset): the register takes the low 32 bits.
writel_xlnx(st, data, offset) ==
    [st EXCEPT !.regs[offset] = Low32(data),
               !.log = Append(@, [ev |-> "writel", off |-> offset,
                                  data |-> Low32(data)])]

\* readl(xlnx->base + offset), as an unsigned long
readl(st, offset) == st.regs[offset] \o <<0, 0, 0, 0>>

clk_prepare_enable(st, ret) ==
    [st EXCEPT !.clk = IF ret = 0 THEN @ + 1 ELSE @,
               !.log = Append(@, [ev |-> "clk_prepare_enable", ret |-> ret])]

clk_disable_unprepare(st) ==
    [st EXCEPT !.clk = @ - 1,
               !.log = Append(@, [ev |-> "clk_disable_unprepare"])]

\* do_div(c, base): c becomes the quotient
do_div(c, base) == DivModU(c, base).q

\* c = clkrate * ns; do_div(c, 1000000000): the product is taken in unsigned
\* long long, the int ns converted to it.
Cycles(clkrate, ns) == do_div(MulU(clkrate, U64(ns)), NsPerSec)

\* Cycles over the inputs of the model, evaluated once.
CyclesTable == {<<r, n, Cycles(r, n)>> : r \in Rates, n \in NsValues}

clk_cycles(clkrate, ns) ==
    (CHOOSE t \in CyclesTable : t[1] = clkrate /\ t[2] = ns)[3]

\* TCSR_UDT | TCSR_GENT | TCSR_ARHT | TCSR_PWMA, an unsigned long
BaseFlags ==
    Or(Or(Or(U64(TCSR_UDT), U64(TCSR_GENT)), U64(TCSR_ARHT)), U64(TCSR_PWMA))

\* ~TCSR_GENT: the complement of the int, converted to unsigned long
NotGENT == U64(-TCSR_GENT - 1)

\* ConfigProgram with the two tests in the other order: duty == period is
\* tested before duty == 0.
ConfigProgram_OnFirst(lbits, clkrate, duty_ns, period_ns) ==
    LET period_cycles == Trunc(clk_cycles(clkrate, period_ns), lbits)
        c == clk_cycles(clkrate, duty_ns)
        duty_cycles == Trunc(c, lbits)
    IN  [period_cycles |-> period_cycles,
         duty_cycles |-> duty_cycles,
         tcsr0 |-> IF c # period_cycles /\ IsZero(c)
                   THEN And(BaseFlags, NotGENT) ELSE BaseFlags,
         tcsr1 |-> IF c = period_cycles
                   THEN And(BaseFlags, NotGENT) ELSE BaseFlags]

\* ConfigProgram comparing the unsigned long duty_cycles, not the unsigned
\* long long quotient c.
ConfigProgram_CompareTruncated(lbits, clkrate, duty_ns, period_ns) ==
    LET period_cycles == Trunc(clk_cycles(clkrate, period_ns), lbits)
        c == clk_cycles(clkrate, duty_ns)
        duty_cycles == Trunc(c, lbits)
    IN  [period_cycles |-> period_cycles,
         duty_cycles |-> duty_cycles,
         tcsr0 |-> IF IsZero(duty_cycles)
                   THEN And(BaseFlags, NotGENT) ELSE BaseFlags,
         tcsr1 |-> IF ~IsZero(duty_cycles) /\ duty_cycles = period_cycles
                   THEN And(BaseFlags, NotGENT) ELSE BaseFlags]

\* ConfigProgram with TCSR_GENT left out of tcsr1's initial value.
ConfigProgram_NoGentB(lbits, clkrate, duty_ns, period_ns) ==
    LET period_cycles == Trunc(clk_cycles(clkrate, period_ns), lbits)
        c == clk_cycles(clkrate, duty_ns)
        duty_cycles == Trunc(c, lbits)
    IN  [period_cycles |-> period_cycles,
         duty_cycles |-> duty_cycles,
         tcsr0 |-> IF IsZero(c) THEN And(BaseFlags, NotGENT) ELSE BaseFlags,
         tcsr1 |-> And(BaseFlags, NotGENT)]

\* ConfigProgram with the second test not under the else of the first: both
\* tests are made.
ConfigProgram_BothTests(lbits, clkrate, duty_ns, period_ns) ==
    LET period_cycles == Trunc(clk_cycles(clkrate, period_ns), lbits)
        c == clk_cycles(clkrate, duty_ns)
        duty_cycles == Trunc(c, lbits)
    IN  [period_cycles |-> period_cycles,
         duty_cycles |-> duty_cycles,
         tcsr0 |-> IF IsZero(c) THEN And(BaseFlags, NotGENT) ELSE BaseFlags,
         tcsr1 |-> IF c = period_cycles
                   THEN And(BaseFlags, NotGENT) ELSE BaseFlags]

\* The computation of xlnx_pwm_config before its first register access:
\* the cycle counts (the quotient c is an unsigned long long, period_cycles
\* and duty_cycles are unsigned long) and the two control words.
ConfigProgram(lbits, clkrate, duty_ns, period_ns) ==
    LET period_cycles == Trunc(clk_cycles(clkrate, period_ns), lbits)
        c == clk_cycles(clkrate, duty_ns)
        duty_cycles == Trunc(c, lbits)
    IN  [period_cycles |-> period_cycles,
         duty_cycles |-> duty_cycles,
         tcsr0 |-> IF IsZero(c) THEN And(BaseFlags, NotGENT) ELSE BaseFlags,
         tcsr1 |-> IF ~IsZero(c) /\ c = period_cycles
                   THEN And(BaseFlags, NotGENT) ELSE BaseFlags]

\* ConfigRun starting the counters before the presets are written and loaded.
ConfigRun_StartBeforeLoad(st0, p, clkret) ==
    LET s1  == clk_prepare_enable(st0, clkret)
        s2  == writel_xlnx(s1, U64(0), TCSR0)
        s3  == writel_xlnx(s2, U64(0), TCSR1)
        s4  == writel_xlnx(s3, p.tcsr0, TCSR0)
        s5  == writel_xlnx(s4, p.tcsr1, TCSR1)
        s6  == writel_xlnx(s5, Or(p.tcsr1, U64(TCSR_ENALL)), TCSR1)
        s7  == writel_xlnx(s6, p.period_cycles, TLR0)
        s8  == writel_xlnx(s7, p.duty_cycles, TLR1)
        s9  == writel_xlnx(s8, U64(TCSR_LOAD), TCSR0)
        s10 == writel_xlnx(s9, U64(TCSR_LOAD), TCSR1)
    IN  clk_disable_unprepare(s10)

\* ConfigRun setting ENALL in both control words.
ConfigRun_EnableBoth(st0, p, clkret) ==
    LET s1  == clk_prepare_enable(st0, clkret)
        s2  == writel_xlnx(s1, U64(0), TCSR0)
        s3  == writel_xlnx(s2, U64(0), TCSR1)
        s4  == writel_xlnx(s3, p.period_cycles, TLR0)
        s5  == writel_xlnx(s4, p.duty_cycles, TLR1)
        s6  == writel_xlnx(s5, U64(TCSR_LOAD), TCSR0)
        s7  == writel_xlnx(s6, U64(TCSR_LOAD), TCSR1)
        s8  == writel_xlnx(s7, Or(p.tcsr0, U64(TCSR_ENALL)), TCSR0)
        s9  == writel_xlnx(s8, Or(p.tcsr1, U64(TCSR_ENALL)), TCSR1)
    IN  clk_disable_unprepare(s9)

\* ConfigRun leaving the LOAD bit set in the final control words.
ConfigRun_KeepLoad(st0, p, clkret) ==
    LET s1  == clk_prepare_enable(st0, clkret)
        s2  == writel_xlnx(s1, U64(0), TCSR0)
        s3  == writel_xlnx(s2, U64(0), TCSR1)
        s4  == writel_xlnx(s3, p.period_cycles, TLR0)
        s5  == writel_xlnx(s4, p.duty_cycles, TLR1)
        s6  == writel_xlnx(s5, U64(TCSR_LOAD), TCSR0)
        s7  == writel_xlnx(s6, U64(TCSR_LOAD), TCSR1)
        s8  == writel_xlnx(s7, Or(p.tcsr0, U64(TCSR_LOAD)), TCSR0)
        s9  == writel_xlnx(s8, Or(p.tcsr1, U64(TCSR_LOAD)), TCSR1)
        s10 == writel_xlnx(s9, Or(Or(p.tcsr1, U64(TCSR_LOAD)), U64(TCSR_ENALL)),
                           TCSR1)
    IN  clk_disable_unprepare(s10)

\* ConfigRun with the two presets written to each other's load register.
ConfigRun_SwapLoads(st0, p, clkret) ==
    LET s1  == clk_prepare_enable(st0, clkret)
        s2  == writel_xlnx(s1, U64(0), TCSR0)
        s3  == writel_xlnx(s2, U64(0), TCSR1)
        s4  == writel_xlnx(s3, p.duty_cycles, TLR0)
        s5  == writel_xlnx(s4, p.period_cycles, TLR1)
        s6  == writel_xlnx(s5, U64(TCSR_LOAD), TCSR0)
        s7  == writel_xlnx(s6, U64(TCSR_LOAD), TCSR1)
        s8  == writel_xlnx(s7, p.tcsr0, TCSR0)
        s9  == writel_xlnx(s8, p.tcsr1, TCSR1)
        s10 == writel_xlnx(s9, Or(p.tcsr1, U64(TCSR_ENALL)), TCSR1)
    IN  clk_disable_unprepare(s10)

\* ConfigRun returning without the clk_disable_unprepare.
ConfigRun_KeepClock(st0, p, clkret) ==
    LET s1  == clk_prepare_enable(st0, clkret)
        s2  == writel_xlnx(s1, U64(0), TCSR0)
        s3  == writel_xlnx(s2, U64(0), TCSR1)
        s4  == writel_xlnx(s3, p.period_cycles, TLR0)
        s5  == writel_xlnx(s4, p.duty_cycles, TLR1)
        s6  == writel_xlnx(s5, U64(TCSR_LOAD), TCSR0)
        s7  == writel_xlnx(s6, U64(TCSR_LOAD), TCSR1)
        s8  == writel_xlnx(s7, p.tcsr0, TCSR0)
        s9  == writel_xlnx(s8, p.tcsr1, TCSR1)
    IN  writel_xlnx(s9, Or(p.tcsr1, U64(TCSR_ENALL)), TCSR1)

\* The clock and register accesses of xlnx_pwm_config, from the state st0.
ConfigRun(st0, p, clkret) ==
    LET s1  == clk_prepare_enable(st0, clkret)
        s2  == writel_xlnx(s1, U64(0), TCSR0)
        s3  == writel_xlnx(s2, U64(0), TCSR1)
        s4  == writel_xlnx(s3, p.period_cycles, TLR0)
        s5  == writel_xlnx(s4, p.duty_cycles, TLR1)
        s6  == writel_xlnx(s5, U64(TCSR_LOAD), TCSR0)
        s7  == writel_xlnx(s6, U64(TCSR_LOAD), TCSR1)
        s8  == writel_xlnx(s7, p.tcsr0, TCSR0)
        s9  == writel_xlnx(s8, p.tcsr1, TCSR1)
        s10 == writel_xlnx(s9, Or(p.tcsr1, U64(TCSR_ENALL)), TCSR1)
    IN  clk_disable_unprepare(s10)

\* EnableRun writing TCSR0's flags without GENT.
EnableRun_ClearGent(st0, clkret) ==
    LET s1 == writel_xlnx(st0, U64(0), TCSR0)
        s2 == writel_xlnx(s1, U64(0), TCSR1)
        s3 == writel_xlnx(s2, readl(s2, TLR0), TLR0)
        s4 == writel_xlnx(s3, readl(s3, TLR1), TLR1)
        s5 == writel_xlnx(s4, U64(TCSR_LOAD), TCSR0)
        s6 == writel_xlnx(s5, U64(TCSR_LOAD), TCSR1)
        s7 == writel_xlnx(s6, And(BaseFlags, NotGENT), TCSR0)
        s8 == writel_xlnx(s7, Or(BaseFlags, U64(TCSR_ENALL)), TCSR1)
    IN  clk_prepare_enable(s8, clkret)

\* EnableRun starting the counters before the presets are loaded.
EnableRun_EnallFirst(st0, clkret) ==
    LET s1 == writel_xlnx(st0, U64(0), TCSR0)
        s2 == writel_xlnx(s1, U64(0), TCSR1)
        s3 == writel_xlnx(s2, BaseFlags, TCSR0)
        s4 == writel_xlnx(s3, Or(BaseFlags, U64(TCSR_ENALL)), TCSR1)
        s5 == writel_xlnx(s4, readl(s4, TLR0), TLR0)
        s6 == writel_xlnx(s5, readl(s5, TLR1), TLR1)
        s7 == writel_xlnx(s6, U64(TCSR_LOAD), TCSR0)
        s8 == writel_xlnx(s7, U64(TCSR_LOAD), TCSR1)
    IN  clk_prepare_enable(s8, clkret)

\* EnableRun writing what it read from TLR0 to both load registers.
EnableRun_ReadSameLoad(st0, clkret) ==
    LET s1 == writel_xlnx(st0, U64(0), TCSR0)
        s2 == writel_xlnx(s1, U64(0), TCSR1)
        s3 == writel_xlnx(s2, readl(s2, TLR0), TLR0)
        s4 == writel_xlnx(s3, readl(s3, TLR0), TLR1)
        s5 == writel_xlnx(s4, U64(TCSR_LOAD), TCSR0)
        s6 == writel_xlnx(s5, U64(TCSR_LOAD), TCSR1)
        s7 == writel_xlnx(s6, BaseFlags, TCSR0)
        s8 == writel_xlnx(s7, Or(BaseFlags, U64(TCSR_ENALL)), TCSR1)
    IN  clk_prepare_enable(s8, clkret)

\* The register and clock accesses of xlnx_pwm_enable, from the state st0.
EnableRun(st0, clkret) ==
    LET s1 == writel_xlnx(st0, U64(0), TCSR0)
        s2 == writel_xlnx(s1, U64(0), TCSR1)
        s3 == writel_xlnx(s2, readl(s2, TLR0), TLR0)
        s4 == writel_xlnx(s3, readl(s3, TLR1), TLR1)
        s5 == writel_xlnx(s4, U64(TCSR_LOAD), TCSR0)
        s6 == writel_xlnx(s5, U64(TCSR_LOAD), TCSR1)
        s7 == writel_xlnx(s6, BaseFlags, TCSR0)
        s8 == writel_xlnx(s7, Or(BaseFlags, U64(TCSR_ENALL)), TCSR1)
    IN  clk_prepare_enable(s8, clkret)

\* DisableRun that halts the counters and keeps the clock reference.
DisableRun_KeepClock(st0) ==
    LET s1 == writel_xlnx(st0, U64(0), TCSR0)
    IN  writel_xlnx(s1, U64(0), TCSR1)

\* The register and clock accesses of xlnx_pwm_disable, from the state st0.
DisableRun(st0) ==
    LET s1 == writel_xlnx(st0, U64(0), TCSR0)
        s2 == writel_xlnx(s1, U64(0), TCSR1)
    IN  clk_disable_unprepare(s2)

\* ConfigAccess with the last write, the control word with ENALL, made to
\* TCSR0.
ConfigAccess_StartOnA(k, st, p, clkret) ==
    CASE k = 1  -> clk_prepare_enable(st, clkret)
      [] k = 2  -> writel_xlnx(st, U64(0), TCSR0)
      [] k = 3  -> writel_xlnx(st, U64(0), TCSR1)
      [] k = 4  -> writel_xlnx(st, p.period_cycles, TLR0)
      [] k = 5  -> writel_xlnx(st, p.duty_cycles, TLR1)
      [] k = 6  -> writel_xlnx(st, U64(TCSR_LOAD), TCSR0)
      [] k = 7  -> writel_xlnx(st, U64(TCSR_LOAD), TCSR1)
      [] k = 8  -> writel_xlnx(st, p.tcsr0, TCSR0)
      [] k = 9  -> writel_xlnx(st, p.tcsr1, TCSR1)
      [] k = 10 -> writel_xlnx(st, Or(p.tcsr1, U64(TCSR_ENALL)), TCSR0)
      [] k = 11 -> clk_disable_unprepare(st)

\* The k-th of the eleven clock and register accesses of xlnx_pwm_config
\* (lines 80-97), made in the state st.
ConfigAccess(k, st, p, clkret) ==
    CASE k = 1  -> clk_prepare_enable(st, clkret)
      [] k = 2  -> writel_xlnx(st, U64(0), TCSR0)
      [] k = 3  -> writel_xlnx(st, U64(0), TCSR1)
      [] k = 4  -> writel_xlnx(st, p.period_cycles, TLR0)
      [] k = 5  -> writel_xlnx(st, p.duty_cycles, TLR1)
      [] k = 6  -> writel_xlnx(st, U64(TCSR_LOAD), TCSR0)
      [] k = 7  -> writel_xlnx(st, U64(TCSR_LOAD), TCSR1)
      [] k = 8  -> writel_xlnx(st, p.tcsr0, TCSR0)
      [] k = 9  -> writel_xlnx(st, p.tcsr1, TCSR1)
      [] k = 10 -> writel_xlnx(st, Or(p.tcsr1, U64(TCSR_ENALL)), TCSR1)
      [] k = 11 -> clk_disable_unprepare(st)

Entry == [regs |-> regs, clk |-> clkRef, log |-> <<>>]

\* No xlnx_pwm_config call was made yet.
NoProgram ==
    [period_cycles |-> U64(0), duty_cycles |-> U64(0),
     tcsr0 |-> U64(0), tcsr1 |-> U64(0)]

\* A call returns ret having made the accesses of st.log.
Returned(op, rate, duty_ns, period_ns, ret, st) ==
    /\ regs' = st.regs
    /\ clkRef' = st.clk
    /\ last' = [op |-> op, rate |-> rate, duty_ns |-> duty_ns,
                period_ns |-> period_ns, ret |-> ret, log |-> st.log,
                clkBefore |-> clkRef]
    /\ prev' = [op |-> last.op, clkBefore |-> last.clkBefore]
    /\ UNCHANGED <<longBits, pc, prog, overlap>>

(***************************************************************************)
(* The operations of xlnx_pwm_ops and the environment.                     *)
(***************************************************************************)
Init ==
    /\ longBits \in {32, 64}
    /\ regs = [o \in Offsets |-> U32(0)]
    /\ clkRef = 0
    /\ last = [op |-> "none", rate |-> U64(0), duty_ns |-> 0, period_ns |-> 0,
               ret |-> 0, log |-> <<>>, clkBefore |-> 0]
    /\ prev = [op |-> "none", clkBefore |-> 0]
    /\ program = NoProgram
    /\ pc = [t \in Threads |-> 0]
    /\ prog = [t \in Threads |-> NoProgram]
    /\ overlap = FALSE

\* xlnx_pwm_config(chip, pwm, duty_ns, period_ns); clkrate is what its
\* clk_get_rate returns and clkret what its clk_prepare_enable returns.
\* It returns 0.
xlnx_pwm_config(clkrate, duty_ns, period_ns, clkret) ==
    /\ FitsLong(clkrate, longBits)
    /\ clkret = 0 \/ clkRef > -MaxRef
    /\ LET p == ConfigProgram(longBits, clkrate, duty_ns, period_ns)
       IN  /\ program' = p
           /\ Returned("config", clkrate, duty_ns, period_ns, 0,
                       ConfigRun(Entry, p, clkret))

\* xlnx_pwm_enable(chip, pwm): returns what clk_prepare_enable returns.
xlnx_pwm_enable(clkret) ==
    /\ clkret # 0 \/ clkRef < MaxRef
    /\ UNCHANGED program
    /\ Returned("enable", U64(0), 0, 0, clkret, EnableRun(Entry, clkret))

\* xlnx_pwm_disable(chip, pwm)
xlnx_pwm_disable ==
    /\ clkRef > -MaxRef
    /\ UNCHANGED program
    /\ Returned("disable", U64(0), 0, 0, 0, DisableRun(Entry))

Next ==
    \/ \E r \in Rates, d \in NsValues, p \in NsValues, fails \in BOOLEAN :
           xlnx_pwm_config(r, d, p, ClkRet(fails))
    \/ \E fails \in BOOLEAN : xlnx_pwm_enable(ClkRet(fails))
    \/ xlnx_pwm_disable

Spec == Init /\ [][Next]_vars

(***************************************************************************)
(* Two threads calling xlnx_pwm_config for the same channel with nothing   *)
(* serializing them (the driver takes no lock): each thread computes its    *)
(* program, then makes its eleven accesses one at a time, and the accesses  *)
(* of the two threads interleave in any order.                              *)
(***************************************************************************)
\* The arguments and clock rate of the concurrent calls: 100 MHz and
\* duty 0 of 1 ms, duty 1 ms of 2 s, duty 1000005 ns of 1000005 ns.
ConcCalls ==
    {<<U64(100000000), 0, 1000000>>,
     <<U64(100000000), 1000000, 2000000000>>,
     <<U64(100000000), 1000005, 1000005>>}

\* Thread t enters xlnx_pwm_config and computes its program (lines 58-73).
config_call(t, clkrate, duty_ns, period_ns) ==
    /\ pc[t] = 0
    /\ FitsLong(clkrate, longBits)
    /\ LET p == ConfigProgram(longBits, clkrate, duty_ns, period_ns)
       IN  /\ prog' = [prog EXCEPT ![t] = p]
           /\ program' = p
    /\ pc' = [pc EXCEPT ![t] = 1]
    /\ overlap' = (overlap \/ \E u \in Threads \ {t} : pc[u] \in 1..11)
    /\ UNCHANGED <<longBits, regs, clkRef, last, prev>>

\* Thread t makes its clk_prepare_enable call (line 80), which returns clkret.
config_clk(t, clkret) ==
    /\ pc[t] = 1
    /\ LET st == ConfigAccess(1, Entry, prog[t], clkret)
       IN  regs' = st.regs /\ clkRef' = st.clk
    /\ pc' = [pc EXCEPT ![t] = 2]
    /\ UNCHANGED <<longBits, last, prev, program, prog, overlap>>

\* Thread t makes its next register write (lines 83-95) or its
\* clk_disable_unprepare call (line 97), after which it returns.
config_access(t) ==
    /\ pc[t] \in 2..11
    /\ LET st == ConfigAccess(pc[t], Entry, prog[t], 0)
       IN  regs' = st.regs /\ clkRef' = st.clk
    /\ pc' = [pc EXCEPT ![t] = pc[t] + 1]
    /\ UNCHANGED <<longBits, last, prev, program, prog, overlap>>

NextConc ==
    \/ \E t \in Threads, c \in ConcCalls : config_call(t, c[1], c[2], c[3])
    \/ \E t \in Threads, fails \in BOOLEAN : config_clk(t, ClkRet(fails))
    \/ \E t \in Threads : config_access(t)

SpecConc == Init /\ [][NextConc]_vars

(***************************************************************************)
(* What a call did, read from its record.                                  *)
(***************************************************************************)
\* The register writes of the last call, in order.
Writes == SelectSeq(last.log, LAMBDA e : e.ev = "writel")

ControlRegs == {TCSR0, TCSR1}

LoadRegs == {TLR0, TLR1}

Gent == U32(TCSR_GENT)

\* The control words of the program: what the last call wrote to the control
\* register off other than the halt (zero) and the LOAD pulse.
FlagWrites(off) ==
    {i \in 1..Len(Writes) :
        /\ Writes[i].off = off
        /\ Writes[i].data # U32(0)
        /\ Writes[i].data # U32(TCSR_LOAD)}

\* Counter A is timer 0 (TCSR0, TLR0), counter B is timer 1 (TCSR1, TLR1).
GentA == \A i \in FlagWrites(TCSR0) : HasBit(Writes[i].data, Gent)

NoGentA == \A i \in FlagWrites(TCSR0) : ~HasBit(Writes[i].data, Gent)

GentB == \A i \in FlagWrites(TCSR1) : HasBit(Writes[i].data, Gent)

NoGentB == \A i \in FlagWrites(TCSR1) : ~HasBit(Writes[i].data, Gent)

HasProgram == FlagWrites(TCSR0) # {} /\ FlagWrites(TCSR1) # {}

AlwaysOff == HasProgram /\ NoGentA /\ GentB

AlwaysOn == HasProgram /\ GentA /\ NoGentB

Modulated == HasProgram /\ GentA /\ GentB

\* The quotient the last configure call computed for ns, an unsigned long long.
LastCycles(ns) == clk_cycles(last.rate, ns)

\* A cycle count that does not fit the 32-bit counter.
Exceeds32(c) == ~IsZero(SubSeq(c, 5, 8))

IsCtl(i) == Writes[i].off \in ControlRegs

Before(i, off, data) ==
    \E j \in 1..(i - 1) : Writes[j].off = off /\ Writes[j].data = data

LoadedBefore(i, off) == \E j \in 1..(i - 1) : Writes[j].off = off

(***************************************************************************)
(* C1: every configure call writes, in this order: zero to TCSR0 and to    *)
(* TCSR1, the two new presets to the two load registers, LOAD to TCSR0 and  *)
(* to TCSR1, the final control words without an enable bit to TCSR0 and to  *)
(* TCSR1, then TCSR1's control word with ENALL. So no load register is      *)
(* written and no LOAD pulsed before both control registers were zeroed,    *)
(* and no enable bit is written before both presets were written and        *)
(* loaded.                                                                  *)
(***************************************************************************)
C1_ConfigWriteOrder ==
    last.op = "config" =>
        /\ Len(Writes) = 9
        /\ [i \in 1..9 |-> Writes[i].off]
             = <<TCSR0, TCSR1, TLR0, TLR1, TCSR0, TCSR1, TCSR0, TCSR1, TCSR1>>
        /\ Writes[1].data = U32(0) /\ Writes[2].data = U32(0)
        /\ {Writes[3].data, Writes[4].data}
             = {Low32(LastCycles(last.period_ns)), Low32(LastCycles(last.duty_ns))}
        /\ Writes[5].data = U32(TCSR_LOAD) /\ Writes[6].data = U32(TCSR_LOAD)
        /\ \A i \in {7, 8} :
              /\ ~HasBit(Writes[i].data, U32(TCSR_ENT + TCSR_ENALL + TCSR_LOAD))
              /\ Writes[i].data # U32(0)
        /\ Writes[9].data = Or(Writes[8].data, U32(TCSR_ENALL))
        /\ \A i \in 1..Len(Writes) :
              (Writes[i].off \in LoadRegs
                 \/ (IsCtl(i) /\ HasBit(Writes[i].data, U32(TCSR_LOAD))))
              => Before(i, TCSR0, U32(0)) /\ Before(i, TCSR1, U32(0))
        /\ \A i \in 1..Len(Writes) :
              (IsCtl(i) /\ HasBit(Writes[i].data, U32(TCSR_ENT + TCSR_ENALL)))
              => /\ LoadedBefore(i, TLR0) /\ LoadedBefore(i, TLR1)
                 /\ Before(i, TCSR0, U32(TCSR_LOAD))
                 /\ Before(i, TCSR1, U32(TCSR_LOAD))

\* A configure call made while the counters run after an enable.
C1_Witness == last.op = "config" /\ prev.op = "enable" /\ Len(Writes) = 9

(***************************************************************************)
(* C2: a configure call with duty_ns = 0 writes, for every rate and        *)
(* period, control words with GENT cleared for counter A (timer 0) and set  *)
(* for counter B (timer 1): the always-OFF program.                         *)
(***************************************************************************)
C2_ZeroDutyAlwaysOff ==
    (last.op = "config" /\ last.duty_ns = 0) => AlwaysOff

C2_Witness ==
    /\ last.op = "config" /\ last.duty_ns = 0 /\ last.period_ns = 1000000
    /\ ~HasBit(regs[TCSR0], Gent) /\ HasBit(regs[TCSR1], Gent)

(***************************************************************************)
(* C3, as claimed: a configure call with duty_ns = period_ns > 0 writes,   *)
(* for every rate, control words with GENT cleared for counter B and set    *)
(* for counter A: the always-ON program.                                    *)
(***************************************************************************)
C3_Original ==
    (last.op = "config" /\ last.period_ns > 0 /\ last.duty_ns = last.period_ns)
        => AlwaysOn

(***************************************************************************)
(* C3, amended: a configure call with duty_ns = period_ns > 0 writes the   *)
(* always-ON program when the cycle count computed for period_ns is not     *)
(* zero and fits the unsigned long period_cycles; when the count rounds     *)
(* down to zero it writes the always-OFF program, and when the count does   *)
(* not fit the unsigned long both GENT bits stay set.                       *)
(***************************************************************************)
C3_FullDutyProgram ==
    (last.op = "config" /\ last.period_ns > 0 /\ last.duty_ns = last.period_ns)
        => LET c == LastCycles(last.period_ns)
           IN  IF IsZero(c) THEN AlwaysOff
               ELSE IF FitsLong(c, longBits) THEN AlwaysOn
               ELSE Modulated

C3_Witness ==
    /\ last.op = "config" /\ last.period_ns = 1000000 /\ last.duty_ns = 1000000
    /\ HasBit(regs[TCSR0], Gent) /\ ~HasBit(regs[TCSR1], Gent)

(***************************************************************************)
(* C4, as claimed: a configure call with 0 < duty_ns < period_ns writes,   *)
(* for every rate, control words with GENT set for both counters.           *)
(***************************************************************************)
C4_Original ==
    (last.op = "config" /\ 0 < last.duty_ns /\ last.duty_ns < last.period_ns)
        => Modulated

(***************************************************************************)
(* C4, amended: a configure call with 0 < duty_ns < period_ns writes       *)
(* control words with GENT set for both counters when the cycle count       *)
(* computed for duty_ns is not zero and differs from period_cycles; when    *)
(* the duty count rounds down to zero it writes the always-OFF program, and *)
(* when it equals period_cycles the always-ON program.                      *)
(***************************************************************************)
C4_PartialDutyProgram ==
    (last.op = "config" /\ 0 < last.duty_ns /\ last.duty_ns < last.period_ns)
        => LET c == LastCycles(last.duty_ns)
               period_cycles == Trunc(LastCycles(last.period_ns), longBits)
           IN  IF IsZero(c) THEN AlwaysOff
               ELSE IF c = period_cycles THEN AlwaysOn
               ELSE Modulated

C4_Witness ==
    /\ last.op = "config" /\ last.duty_ns = 1000000 /\ last.period_ns = 2000000000
    /\ HasBit(regs[TCSR0], Gent) /\ HasBit(regs[TCSR1], Gent)

(***************************************************************************)
(* C5, as claimed: after every configure call counter B's load register    *)
(* TLR1 (offset 0x14) holds the computed period cycles and counter A's load *)
(* register TLR0 (offset 0x04) holds the computed duty cycles, as far as a  *)
(* 32-bit register holds them.                                              *)
(***************************************************************************)
C5_Original ==
    last.op = "config" =>
        /\ regs[TLR1] = Low32(LastCycles(last.period_ns))
        /\ regs[TLR0] = Low32(LastCycles(last.duty_ns))

(***************************************************************************)
(* C5, amended: after every configure call the load register of timer 0,   *)
(* TLR0 (offset 0x04), holds the low 32 bits of the computed period cycles  *)
(* and the load register of timer 1, TLR1 (offset 0x14), holds the low 32   *)
(* bits of the computed duty cycles.                                        *)
(***************************************************************************)
C5_LoadRegisters ==
    last.op = "config" =>
        /\ TLR0 = 4 /\ TLR1 = 20
        /\ regs[TLR0] = Low32(LastCycles(last.period_ns))
        /\ regs[TLR1] = Low32(LastCycles(last.duty_ns))

\* 100 MHz, duty 1 ms of a period of 2 s: 200 000 000 and 100 000 cycles.
C5_Witness ==
    /\ last.op = "config" /\ last.rate = U64(100000000)
    /\ last.duty_ns = 1000000 /\ last.period_ns = 2000000000
    /\ regs[TLR0] = U32(200000000) /\ regs[TLR1] = U32(100000)

(***************************************************************************)
(* C6: a configure call with duty_ns > period_ns or with period_ns = 0     *)
(* returns an error and writes no register.                                 *)
(***************************************************************************)
C6_InvalidInputRejected ==
    (last.op = "config" /\ (last.duty_ns > last.period_ns \/ last.period_ns = 0))
        => last.ret # 0 /\ Writes = <<>>

(***************************************************************************)
(* C7, as claimed: a configure call immediately followed by disable leaves *)
(* both control registers at zero and the count of clock references where   *)
(* it was before the configure call, never below it.                        *)
(***************************************************************************)
C7_Original ==
    (last.op = "disable" /\ prev.op = "config") =>
        /\ regs[TCSR0] = U32(0) /\ regs[TCSR1] = U32(0)
        /\ clkRef = prev.clkBefore

\* The clock events of the last call.
ClkEvents(name) == {i \in 1..Len(last.log) : last.log[i].ev = name}

(***************************************************************************)
(* C7, amended: a configure call immediately followed by disable leaves    *)
(* both control registers at zero; disable releases exactly one clock       *)
(* reference and acquires none, and it is not the reference configure       *)
(* acquired, which configure released itself: the count after the pair is   *)
(* one below the count before the pair, or two below when configure's       *)
(* clk_prepare_enable failed.                                               *)
(***************************************************************************)
C7_ConfigThenDisable ==
    (last.op = "disable" /\ prev.op = "config") =>
        /\ regs[TCSR0] = U32(0) /\ regs[TCSR1] = U32(0)
        /\ Cardinality(ClkEvents("clk_disable_unprepare")) = 1
        /\ ClkEvents("clk_prepare_enable") = {}
        /\ clkRef = last.clkBefore - 1
        /\ last.clkBefore \in {prev.clkBefore, prev.clkBefore - 1}
        /\ clkRef < prev.clkBefore

C7_Witness ==
    /\ last.op = "disable" /\ prev.op = "config"
    /\ prev.clkBefore = 0 /\ clkRef = -1

(***************************************************************************)
(* C8: within one configure call ENALL is written exactly once, to TCSR1,  *)
(* and that is the last register write of the call; no write of the call    *)
(* sets ENT or ENALL in TCSR0.                                              *)
(***************************************************************************)
C8_EnableAllOnce ==
    last.op = "config" =>
        LET enall == {i \in 1..Len(Writes) :
                         IsCtl(i) /\ HasBit(Writes[i].data, U32(TCSR_ENALL))}
        IN  /\ enall = {Len(Writes)}
            /\ Len(Writes) > 0
            /\ Writes[Len(Writes)].off = TCSR1
            /\ \A i \in 1..Len(Writes) :
                  Writes[i].off = TCSR0
                  => ~HasBit(Writes[i].data, U32(TCSR_ENT + TCSR_ENALL))

C8_Witness ==
    /\ last.op = "config"
    /\ Len(Writes) = 9
    /\ HasBit(Writes[9].data, U32(TCSR_ENALL))
    /\ ~HasBit(Writes[8].data, U32(TCSR_ENALL))

(***************************************************************************)
(* C9: from any state a configure call returns with the channel Running    *)
(* (TCSR1 holds its control word with ENALL set, neither control register   *)
(* holds LOAD) and a disable call returns with the channel Stopped (both    *)
(* control registers zero); no call returns with the channel loaded but     *)
(* not started.                                                             *)
(***************************************************************************)
Running ==
    /\ HasBit(regs[TCSR1], U32(TCSR_ENALL))
    /\ HasBit(regs[TCSR1], U32(TCSR_PWMA))
    /\ ~HasBit(regs[TCSR0], U32(TCSR_LOAD))
    /\ ~HasBit(regs[TCSR1], U32(TCSR_LOAD))

Stopped == regs[TCSR0] = U32(0) /\ regs[TCSR1] = U32(0)

C9_ChannelStates ==
    /\ last.op = "config" =>
          /\ Len(Writes) >= 2
          /\ Writes[1].data = U32(0) /\ Writes[2].data = U32(0)
          /\ {Writes[1].off, Writes[2].off} = ControlRegs
          /\ \A r \in LoadRegs : \E i \in 1..Len(Writes) : Writes[i].off = r
          /\ Running
    /\ last.op = "disable" => Stopped
    /\ Running \/ Stopped

\* A configure call made while Running returns Running.
C9_Witness ==
    last.op = "config" /\ prev.op = "config" /\ Running /\ ~Stopped

(***************************************************************************)
(* C10: a configure call whose computed period or duty cycle count exceeds *)
(* 32 bits returns an error and writes no truncated count to a load         *)
(* register.                                                                *)
(***************************************************************************)
C10_OverflowReported ==
    (/\ last.op = "config"
     /\ \/ Exceeds32(LastCycles(last.period_ns))
        \/ Exceeds32(LastCycles(last.duty_ns)))
        => /\ last.ret # 0
           /\ \A i \in 1..Len(Writes) : Writes[i].off \notin LoadRegs

\* Some clk_prepare_enable of the last call failed.
ClkFailed ==
    \E i \in ClkEvents("clk_prepare_enable") : last.log[i].ret # 0

(***************************************************************************)
(* C11: a configure call whose clk_prepare_enable fails returns an error,  *)
(* not success.                                                             *)
(***************************************************************************)
C11_ClockFailurePropagated ==
    (last.op = "config" /\ ClkFailed) => last.ret # 0

(***************************************************************************)
(* C12: a step that is an enable or a disable call leaves both load        *)
(* registers with the values they held before the call, whatever those      *)
(* values are.                                                              *)
(***************************************************************************)
C12_LoadRegistersKept ==
    [][last'.op \in {"enable", "disable"}
          => regs'[TLR0] = regs[TLR0] /\ regs'[TLR1] = regs[TLR1]]_vars

\* An enable call returned with two different, non-zero presets latched.
C12_Witness ==
    /\ last.op = "enable"
    /\ regs[TLR0] = U32(200000000) /\ regs[TLR1] = U32(100000)
    /\ \E i \in 1..Len(Writes) : Writes[i].off = TLR1

(***************************************************************************)
(* C13: the control words of every configure call have GENT set for        *)
(* counter A or for counter B: the two clears are never both made, also     *)
(* when the period and duty cycle counts are both zero.                     *)
(***************************************************************************)
C13_AtMostOneClear ==
    last.op = "config" =>
        /\ HasProgram
        /\ ~(NoGentA /\ NoGentB)
        /\ HasBit(regs[TCSR0], Gent) \/ HasBit(regs[TCSR1], Gent)

\* Period and duty are both zero cycles: the first test alone is taken.
C13_Witness ==
    /\ last.op = "config"
    /\ IsZero(LastCycles(last.period_ns)) /\ IsZero(LastCycles(last.duty_ns))
    /\ last.period_ns = 5
    /\ AlwaysOff

\* rate * ns / 1000000000 rounded down, the product taken in 12 bytes, where
\* it cannot wrap for an 8-byte rate and a non-negative int ns.
Wide(a) == a \o <<0, 0, 0, 0>>

ExactCycles(rate, ns) ==
    DivModU(MulU(Wide(rate), BytesOf(ns, 12)), NsPerSec).q

ExactTable == {<<r, n, ExactCycles(r, n)>> : r \in Rates, n \in NsValues}

exact_cycles(rate, ns) ==
    (CHOOSE t \in ExactTable : t[1] = rate /\ t[2] = ns)[3]

RECURSIVE LessEq(_, _)
\* a <= b, for unsigned values of equal width
LessEq(a, b) ==
    IF a = <<>> THEN TRUE
    ELSE LET n == Len(a)
         IN  IF a[n] # b[n] THEN a[n] < b[n]
             ELSE LessEq(SubSeq(a, 1, n - 1), SubSeq(b, 1, n - 1))

(***************************************************************************)
(* C14: the cycle counts a configure call computes for duty_ns and for     *)
(* period_ns equal rate * ns / 1000000000 rounded down, the product taken   *)
(* without wrap; the count for 0 ns is 0 and the count does not decrease    *)
(* when ns grows, the rate fixed.                                           *)
(***************************************************************************)
C14_ExactConversion ==
    last.op = "config" =>
        /\ \A ns \in {last.duty_ns, last.period_ns} :
              Wide(LastCycles(ns)) = exact_cycles(last.rate, ns)
        /\ IsZero(LastCycles(0))
        /\ \A a, b \in NsValues :
              a <= b => LessEq(LastCycles(a), LastCycles(b))

\* The clock references the driver holds when the last call makes its i-th
\* access.
HeldBefore(i) ==
    last.clkBefore
      + Cardinality({j \in 1..(i - 1) :
                        /\ last.log[j].ev = "clk_prepare_enable"
                        /\ last.log[j].ret = 0})
      - Cardinality({j \in 1..(i - 1) :
                        last.log[j].ev = "clk_disable_unprepare"})

(***************************************************************************)
(* C15: every register write of every configure, enable and disable call   *)
(* is made while the driver holds at least one enabled clock reference.     *)
(***************************************************************************)
C15_WritesUnderClock ==
    \A i \in 1..Len(last.log) :
        last.log[i].ev = "writel" => HeldBefore(i) > 0

(***************************************************************************)
(* C16: every configure call makes exactly one clk_prepare_enable, before  *)
(* its first register write, and exactly one clk_disable_unprepare, after   *)
(* its last register write, and returns with the count of clock references  *)
(* it was called with.                                                      *)
(***************************************************************************)
C16_ConfigClockBracket ==
    last.op = "config" =>
        /\ ClkEvents("clk_prepare_enable") = {1}
        /\ ClkEvents("clk_disable_unprepare") = {Len(last.log)}
        /\ Len(Writes) = Len(last.log) - 2
        /\ Len(Writes) > 0
        /\ clkRef = last.clkBefore

\* UDT | GENT | ARHT | PWMA as a register value
Baseline == U32(TCSR_UDT + TCSR_GENT + TCSR_ARHT + TCSR_PWMA)

(***************************************************************************)
(* C17: a step that is an enable call writes, in this order: zero to both  *)
(* control registers, to each load register the value that register held    *)
(* before the call, LOAD to both control registers, the baseline flags to   *)
(* TCSR0, then the baseline flags with ENALL to TCSR1, which is the last    *)
(* register write of the call and the only one that sets an enable bit.     *)
(***************************************************************************)
C17_EnableSequence ==
    [][last'.op = "enable" =>
          LET w == Writes'
          IN  /\ Len(w) = 8
              /\ [i \in 1..8 |-> w[i].off]
                   = <<TCSR0, TCSR1, TLR0, TLR1, TCSR0, TCSR1, TCSR0, TCSR1>>
              /\ w[1].data = U32(0) /\ w[2].data = U32(0)
              /\ w[3].data = regs[TLR0] /\ w[4].data = regs[TLR1]
              /\ w[5].data = U32(TCSR_LOAD) /\ w[6].data = U32(TCSR_LOAD)
              /\ w[7].data = Baseline
              /\ w[8].data = Or(Baseline, U32(TCSR_ENALL))
              /\ \A i \in {1, 2, 5, 6, 7} :
                    ~HasBit(w[i].data, U32(TCSR_ENT + TCSR_ENALL))]_vars

\* An enable call made after a disable, with presets latched by a configure.
C17_Witness ==
    /\ last.op = "enable" /\ prev.op = "disable"
    /\ Len(Writes) = 8
    /\ Writes[3].data = U32(200000000) /\ Writes[4].data = U32(100000)
    /\ HasBit(Writes[8].data, U32(TCSR_ENALL))

\* The registers hold what a configure call that computed p leaves in them.
Programmed(p) ==
    /\ regs[TCSR0] = Low32(p.tcsr0)
    /\ regs[TCSR1] = Or(Low32(p.tcsr1), U32(TCSR_ENALL))
    /\ regs[TLR0] = Low32(p.period_cycles)
    /\ regs[TLR1] = Low32(p.duty_cycles)

\* No thread is inside xlnx_pwm_config and some call has returned.
Quiescent ==
    /\ \A t \in Threads : pc[t] \in {0, 12}
    /\ \E t \in Threads : pc[t] = 12

(***************************************************************************)
(* C18: two threads call xlnx_pwm_config with no serialization. When no    *)
(* call was entered while another was in progress, the registers hold,      *)
(* once the calls have returned, the program of the call made last. When    *)
(* the calls overlap, the accesses interleave and a final state is          *)
(* reachable (C18_Witness) that is the program of neither call: TLR0 holds  *)
(* the period of one call and TLR1 the duty of the other.                   *)
(***************************************************************************)
C18_SerializedMatchesLast ==
    (Quiescent /\ ~overlap) => Programmed(program)

C18_Witness ==
    /\ \A t \in Threads : pc[t] = 12
    /\ overlap
    /\ \A t \in Threads : ~Programmed(prog[t])
    /\ regs[TLR0] = Low32(prog[1].period_cycles)
    /\ regs[TLR1] = Low32(prog[2].duty_cycles)
    /\ regs[TLR0] # Low32(prog[2].period_cycles)
    /\ regs[TLR1] # Low32(prog[1].duty_cycles)

(***************************************************************************)
(* C19: every enable call writes control words with GENT set for both      *)
(* counters and returns with GENT set in both control registers, whatever   *)
(* the most recent configure call computed, while the load registers hold   *)
(* the cycle counts of that configure call: after a configure call that     *)
(* cleared one GENT, a disable and an enable, the clear is gone and the     *)
(* presets of the always-OFF or always-ON program are still latched.        *)
(***************************************************************************)
C19_EnableSetsGent ==
    last.op = "enable" =>
        /\ Modulated
        /\ HasBit(regs[TCSR0], Gent) /\ HasBit(regs[TCSR1], Gent)
        /\ regs[TLR0] = Low32(program.period_cycles)
        /\ regs[TLR1] = Low32(program.duty_cycles)

\* configure computed the always-ON program (GENT cleared for timer 1, duty
\* cycles = period cycles = 100000); after disable and enable TCSR1 has GENT.
C19_Witness ==
    /\ last.op = "enable" /\ prev.op = "disable"
    /\ HasBit(program.tcsr0, U64(TCSR_GENT))
    /\ ~HasBit(program.tcsr1, U64(TCSR_GENT))
    /\ regs[TLR0] = U32(100000) /\ regs[TLR1] = U32(100000)
    /\ HasBit(regs[TCSR1], Gent)

(***************************************************************************)
(* C20, as claimed: every configure call leaves the count of clock         *)
(* references unchanged, every enable call adds one and every disable call  *)
(* takes one away, so that the count is the number of enable calls minus    *)
(* the number of disable calls.                                             *)
(***************************************************************************)
C20_Original ==
    [][clkRef' - clkRef =
          (IF last'.op = "enable" THEN 1
           ELSE IF last'.op = "disable" THEN -1 ELSE 0)]_vars

(***************************************************************************)
(* C20, amended: an enable call adds one reference when it returns 0 and   *)
(* none when it returns an error, a disable call takes one away, and a      *)
(* configure call leaves the count unchanged when its clk_prepare_enable    *)
(* succeeded and takes one away when it failed; the count is the number of  *)
(* enable calls that returned 0 minus the number of disable calls minus the *)
(* number of configure calls whose clk_prepare_enable failed.               *)
(***************************************************************************)
C20_RefCountSteps ==
    [][clkRef' - clkRef =
          (CASE last'.op = "enable" -> (IF last'.ret = 0 THEN 1 ELSE 0)
             [] last'.op = "disable" -> -1
             [] OTHER -> (IF ClkFailed' THEN -1 ELSE 0))]_vars

\* An enable call returned 0 after a configure call: one reference is held.
C20_Witness ==
    /\ last.op = "enable" /\ last.ret = 0 /\ prev.op = "config"
    /\ last.clkBefore = 0 /\ clkRef = 1

====
